---- MODULE Spec2Model ----
(***************************************************************************)
(* A model of the sis package: the paginated fetcher sis.get_items, the    *)
(* path extractors of enrollments.py / classes.py / student.py and the     *)
(* domain queries built on them.                                           *)
(*                                                                         *)
(* One invocation runs at a time.  A Call_* action runs a function up to   *)
(* and including its first HTTP GET (or to its return when it sends none); *)
(* a Receive_* action takes the response to the outstanding GET and runs   *)
(* the code up to the next GET or to the return.  The HTTP client and the  *)
(* SIS server are the environment: every response is chosen among the      *)
(* responses an endpoint can give.                                         *)
(*                                                                         *)
(* JSON objects are records (an absent key is absent from the DOMAIN),     *)
(* JSON arrays and Python lists are sequences, Python's None / JSON null   *)
(* is the string None, a Python set is a duplicate-free sequence, and a    *)
(* bare string that ends up inside a list of records is [str |-> s].       *)
(***************************************************************************)
EXTENDS Integers, Sequences, FiniteSets, TLC

VARIABLES
    op,         \* the function invoked ("none" when idle)
    args,       \* its arguments
    pc,         \* "idle", "await" (a GET is outstanding) or "done"
    uri,        \* get_items: uri of the running call
    item_type,  \* get_items: item_type of the running call
    params,     \* get_items: the params mapping (mutated in place)
    frames,     \* get_items: `items` of each suspended recursive frame
    locals,     \* local variables of the domain function across awaits
    reqlog,     \* every GET issued by the invocation, in order
    resplog,    \* every response received by the invocation, in order
    result      \* how the invocation ended

vars == <<op, args, pc, uri, item_type, params, frames, locals, reqlog,
          resplog, result>>

----------------------------------------------------------------------------
(* Bounds of the model *)

\* item pages one get_items call may be served before the server must stop
MaxPages == 2
\* items on one page of the generic endpoint
MaxPageLen == 2
\* GETs one invocation may issue
MaxRequests == 7

----------------------------------------------------------------------------
(* Python / JSON helpers *)

None == "None"

Range(s) == {s[i] : i \in 1..Len(s)}

SeqsUpTo(S, n) == UNION {[1..k -> S] : k \in 0..n}

RECURSIVE Flatten(_)
Flatten(ss) == IF ss = <<>> THEN <<>> ELSE Head(ss) \o Flatten(Tail(ss))

\* set(iterable): duplicates collapse
PySet_keepall(s) == s
RECURSIVE PySet(_)
PySet(s) ==
    IF s = <<>> THEN <<>>
    ELSE LET rest == PySet(SelectSeq(Tail(s), LAMBDA y : y # Head(s)))
         IN  <<Head(s)>> \o rest

\* the keys of a dict, as iterating it (or list += dict) yields them
RECURSIVE KeysOf(_)
KeysOf(d) ==
    IF DOMAIN d = {} THEN <<>>
    ELSE LET k == CHOOSE x \in DOMAIN d : TRUE
         IN  <<[str |-> k]>> \o KeysOf([x \in DOMAIN d \ {k} |-> d[x]])

----------------------------------------------------------------------------
(* Endpoints *)

enrollments_uri == "https://apis.berkeley.edu/sis/v2/enrollments"
classes_sections_uri == "https://gateway.api.berkeley.edu/sis/v1/classes/sections"
terms_uri == "https://apis.berkeley.edu/sis/v1/terms"
courses_uri == "https://gateway.api.berkeley.edu/sis/v4/courses"
students_url == "https://gateway.api.berkeley.edu/sis/v2/students"

----------------------------------------------------------------------------
(* The environment: what an endpoint can answer *)

\* a decoded body without the apiResponse envelope (an error document)
ErrBody == [message |-> "error"]
\* an envelope without the response key
NoResponseBody == [apiResponse |-> [httpStatus |-> "x"]]
\* a response without the named collection
NoCollectionBody == [apiResponse |-> [response |-> [message |-> "none"]]]
\* a response carrying the collection named t
PageBody(t, items) == [apiResponse |-> [response |-> [k \in {t} |-> items]]]

Resp(status, json, body) == [status |-> status, json |-> json, body |-> body]

\* status 0: the GET itself failed (connection error, timeout)
Faults ==
    { Resp(404, TRUE, ErrBody), Resp(401, TRUE, ErrBody),
      Resp(500, TRUE, ErrBody), Resp(0, FALSE, ErrBody),
      Resp(200, FALSE, ErrBody), Resp(200, TRUE, ErrBody),
      Resp(200, TRUE, NoResponseBody), Resp(200, TRUE, NoCollectionBody) }

\* the faults the domain endpoints are modelled with
DomainFaults == { Resp(404, TRUE, ErrBody), Resp(401, TRUE, ErrBody) }

GenericItems == {[id |-> "a"], [id |-> "b"]}
GenericPages == SeqsUpTo(GenericItems, MaxPageLen)

IsItemPage(r, t) ==
    /\ r.status = 200
    /\ r.json
    /\ "apiResponse" \in DOMAIN r.body
    /\ "response" \in DOMAIN r.body.apiResponse
    /\ t \in DOMAIN r.body.apiResponse.response

----------------------------------------------------------------------------
(* sis.get_items *)

\* sis.py:41-42: a 404 ends the call with an empty list
On404_raise == [tag |-> "raise", val |-> "NotFound"]
On404 == [tag |-> "list", val |-> <<>>]

\* sis.py:55: the call is paginated when the mapping has a page number
IsPaginated_always(p) == TRUE
IsPaginated(p) == "page-number" \in DOMAIN p

\* sis.py:58: params['page-number'] += 1
NextPage(p) == [p EXCEPT !["page-number"] = @ + 1]

\* sis.py:59: items += <what the recursive call returned>
ExtendItems_drop(items, more) == more
ExtendItems(items, more) == items \o more

\* sis.py:40-56: one frame of get_items, from its response to its return
\* or to the recursive call ("page": this frame holds val and recurses)
GetItemsPage(r, p, t) ==
    IF r.status = 0 THEN [tag |-> "raise", val |-> "ClientError"]
    ELSE IF r.status = 404 THEN On404
    ELSE IF ~r.json THEN [tag |-> "raise", val |-> "ContentTypeError"]
    ELSE IF \/ "apiResponse" \notin DOMAIN r.body
            \/ "response" \notin DOMAIN r.body.apiResponse
         THEN [tag |-> "dict", val |-> r.body]
    ELSE IF t \notin DOMAIN r.body.apiResponse.response
         THEN [tag |-> "dict", val |-> r.body]
    ELSE IF ~IsPaginated(p)
         THEN [tag |-> "list", val |-> r.body.apiResponse.response[t]]
    ELSE [tag |-> "page", val |-> r.body.apiResponse.response[t]]

\* sis.py:59-62: the suspended frames resume, innermost first, each
\* extending its items with what its recursive call returned
RECURSIVE Unwind(_, _)
Unwind(fs, inner) ==
    IF fs = <<>> THEN inner
    ELSE IF inner.tag = "raise" THEN inner
    ELSE LET more == IF inner.tag = "dict" THEN KeysOf(inner.val)
                     ELSE inner.val
             mine == fs[Len(fs)]
         IN  Unwind(SubSeq(fs, 1, Len(fs) - 1),
                    [tag |-> "list", val |-> ExtendItems(mine, more)])

\* sis.py:35-62: get_items after response r: "page" when it recurses,
\* otherwise what the outermost call returns or raises
GetItems(r) ==
    LET o == GetItemsPage(r, params, item_type)
    IN  IF o.tag = "page" THEN o ELSE Unwind(frames, o)

Request(u, p) == [uri |-> u, params |-> p]

\* the GET of sis.py:40 is sent
Send(u, p, t) ==
    /\ Len(reqlog) < MaxRequests
    /\ uri' = u
    /\ params' = p
    /\ item_type' = t
    /\ reqlog' = Append(reqlog, Request(u, p))
    /\ pc' = "await"

\* a fresh get_items call: no frame is suspended
StartGetItems(u, p, t) ==
    /\ Send(u, p, t)
    /\ frames' = <<>>

\* sis.py:58-59: the frame keeps its items and calls get_items again
Recurse(items) ==
    /\ Len(frames) < MaxPages
    /\ Send(uri, NextPage(params), item_type)
    /\ frames' = Append(frames, items)

Returned(v) == [kind |-> "return", val |-> v]
Raised(e) == [kind |-> "raise", val |-> e]
NoResult == [kind |-> "none", val |-> None]

\* the invocation ends
Finish(res) ==
    /\ pc' = "done"
    /\ result' = res
    /\ UNCHANGED <<uri, item_type, params, frames, reqlog>>

NoLocals == [stage |-> "none"]

----------------------------------------------------------------------------
(* Invocations *)

Init ==
    /\ op = "none"
    /\ args = [none |-> None]
    /\ pc = "idle"
    /\ uri = ""
    /\ item_type = ""
    /\ params = [k \in {} |-> None]
    /\ frames = <<>>
    /\ locals = NoLocals
    /\ reqlog = <<>>
    /\ resplog = <<>>
    /\ result = NoResult

\* a caller invokes sis.get_items directly, with or without a page number
Call_get_items ==
    /\ pc = "idle"
    /\ \E paged \in BOOLEAN, page \in 1..2 :
        LET p == IF paged
                 THEN ("page-number" :> page) @@ ("page-size" :> 100)
                 ELSE ("page-size" :> 100)
        IN  /\ (~paged => page = 1)
            /\ op' = "get_items"
            /\ args' = [params |-> p]
            /\ StartGetItems("https://sis/items", p, "items")
    /\ UNCHANGED <<locals, resplog, result>>

Receive_get_items ==
    /\ pc = "await"
    /\ op = "get_items"
    /\ \E r \in Faults \cup {Resp(200, TRUE, PageBody("items", l)) : l \in GenericPages} :
        LET o == GetItems(r)
        IN  /\ resplog' = Append(resplog, r)
            /\ IF o.tag = "page"
               THEN Recurse(o.val) /\ UNCHANGED result
               ELSE IF o.tag = "raise"
               THEN Finish(Raised(o.val))
               ELSE Finish(Returned(o))
    /\ UNCHANGED <<op, args, locals>>

----------------------------------------------------------------------------
(* terms.get_term_id_from_year_sem *)

Years == {"2019", "2020"}
Semesters == {"spring", "summer", "fall", "winter", "Fall"}

Term1 == [id |-> "2198", name |-> "2019 Fall"]
Term2 == [id |-> "2202", name |-> "2020 Spring"]
TermPages == {<<>>, <<Term1>>, <<Term2, Term1>>, <<[name |-> "2019 Fall"]>>}

\* terms.py:43-50: the month and day a semester is anchored at; None stands
\* for the else branch, which raises
SemesterAnchor_swapped(semester) ==
    IF semester = "spring" THEN "02-01"
    ELSE IF semester = "summer" THEN "10-01"
    ELSE IF semester = "fall" THEN "07-01"
    ELSE None
SemesterAnchor(semester) ==
    IF semester = "spring" THEN "02-01"
    ELSE IF semester = "summer" THEN "07-01"
    ELSE IF semester = "fall" THEN "10-01"
    ELSE None

\* terms.py:51: params = { "as-of-date": f"{year}-{mm_dd}" }
AsOfDateParams(year, mm_dd) == "as-of-date" :> (year \o "-" \o mm_dd)

\* terms.py:34,54: terms[0]['id'] on what get_items returned
FirstTermId(o) ==
    IF o.tag = "dict" THEN Raised("KeyError")
    ELSE IF o.val = <<>> THEN Raised("IndexError")
    ELSE IF "id" \notin DOMAIN o.val[1] THEN Raised("KeyError")
    ELSE Returned([tag |-> "str", val |-> o.val[1].id])

Call_get_term_id_from_year_sem ==
    /\ pc = "idle"
    /\ \E year \in Years, semester \in Semesters :
        /\ op' = "get_term_id_from_year_sem"
        /\ args' = [year |-> year, semester |-> semester]
        /\ IF SemesterAnchor(semester) = None
           THEN Finish(Raised("Exception"))
           ELSE /\ StartGetItems(terms_uri,
                                 AsOfDateParams(year, SemesterAnchor(semester)),
                                 "terms")
                /\ UNCHANGED result
    /\ UNCHANGED <<locals, resplog>>

Receive_get_term_id_from_year_sem ==
    /\ pc = "await"
    /\ op = "get_term_id_from_year_sem"
    /\ \E r \in Faults \cup {Resp(200, TRUE, PageBody("terms", l)) : l \in TermPages} :
        LET o == GetItems(r)
        IN  /\ resplog' = Append(resplog, r)
            /\ IF o.tag = "page"
               THEN Recurse(o.val) /\ UNCHANGED result
               ELSE IF o.tag = "raise"
               THEN Finish(Raised(o.val))
               ELSE Finish(FirstTermId(o))
    /\ UNCHANGED <<op, args, locals>>

----------------------------------------------------------------------------
(* course.get_courses *)

CourseFilterValue(k) ==
    IF k = "subject-area-code" THEN "STAT"
    ELSE IF k = "catalog-number" THEN "C8"
    ELSE "title"

\* the keyword arguments a caller may pass
CourseKwargs ==
    {[k \in S |-> CourseFilterValue(k)] :
        S \in SUBSET {"subject-area-code", "catalog-number", "sort-by"}}

Course1 == [displayName |-> "STAT C8", title |-> "Foundations of Data Science"]
CoursePages == {<<>>, <<Course1>>}

\* course.py:22: no filter was given
NoCourseFilter_never(kwargs) == FALSE
NoCourseFilter(kwargs) == Cardinality(DOMAIN kwargs) = 0

\* course.py:25-28: the params built from the keyword arguments
CourseParams(kwargs) ==
    LET sorted == IF "sort-by" \notin DOMAIN kwargs
                  THEN ("sort-by" :> "catalog-number") @@ kwargs
                  ELSE kwargs
    IN  ("page-number" :> 1) @@ sorted

Call_get_courses ==
    /\ pc = "idle"
    /\ \E kwargs \in CourseKwargs :
        /\ op' = "get_courses"
        /\ args' = [kwargs |-> kwargs]
        /\ IF NoCourseFilter(kwargs)
           THEN Finish(Returned([tag |-> "list", val |-> <<>>]))
           ELSE /\ StartGetItems(courses_uri, CourseParams(kwargs), "courses")
                /\ UNCHANGED result
    /\ UNCHANGED <<locals, resplog>>

Receive_get_courses ==
    /\ pc = "await"
    /\ op = "get_courses"
    /\ \E r \in DomainFaults \cup {Resp(200, TRUE, PageBody("courses", l)) : l \in CoursePages} :
        LET o == GetItems(r)
        IN  /\ resplog' = Append(resplog, r)
            /\ IF o.tag = "page"
               THEN Recurse(o.val) /\ UNCHANGED result
               ELSE IF o.tag = "raise"
               THEN Finish(Raised(o.val))
               ELSE Finish(Returned(o))
    /\ UNCHANGED <<op, args, locals>>

----------------------------------------------------------------------------
(* People: identifiers, emails, names *)

CampusUid == "campus-uid"

\* an identifier entry; the disclose key may be absent
Identifiers ==
    LET types == {CampusUid, "student-id"}
        ids == {"1", "2"}
    IN  {[type |-> t, id |-> i, disclose |-> d] :
            t \in types, i \in ids, d \in BOOLEAN}
        \cup {[type |-> t, id |-> i] : t \in types, i \in ids}

\* an email entry; the disclose key may be absent
Emails ==
    LET codes == {"CAMP", "OTHR"}
        addrs == {"a@berkeley.edu", "b@gmail.com"}
    IN  {[type |-> [code |-> c], emailAddress |-> a, disclose |-> d] :
            c \in codes, a \in addrs, d \in BOOLEAN}
        \cup {[type |-> [code |-> c], emailAddress |-> a] :
            c \in codes, a \in addrs}

\* entries in one person's identifiers or emails
MaxEntries == 2

\* JMESPath truth of the field `disclose` of an entry: null (absent) and
\* false are false
Discloses(e) == "disclose" \in DOMAIN e /\ e.disclose

\* JMESPath  <list>[?disclose && type=='<kind>'].id
DisclosedIds_undisclosed(identifiers, kind) ==
    LET m == SelectSeq(identifiers,
                 LAMBDA e : "type" \in DOMAIN e /\ e.type = kind /\ "id" \in DOMAIN e)
    IN  [j \in 1..Len(m) |-> m[j].id]
DisclosedIds(identifiers, kind) ==
    LET m == SelectSeq(identifiers,
                 LAMBDA e : /\ Discloses(e)
                            /\ "type" \in DOMAIN e /\ e.type = kind
                            /\ "id" \in DOMAIN e)
    IN  [j \in 1..Len(m) |-> m[j].id]

\* JMESPath  <list>[?type.code=='<code>'].emailAddress
EmailsOfType(emails, code) ==
    LET m == SelectSeq(emails,
                 LAMBDA e : /\ "type" \in DOMAIN e /\ "code" \in DOMAIN e.type
                            /\ e.type.code = code
                            /\ "emailAddress" \in DOMAIN e)
    IN  [j \in 1..Len(m) |-> m[j].emailAddress]

\* JMESPath  <expr> | [0]
First(s) == IF s = <<>> THEN None ELSE s[1]

\* a key of an object, or the empty list where JMESPath yields null (the
\* filters and projections applied next yield null for it, and | [0] null)
ListAt(obj, key) == IF key \in DOMAIN obj THEN obj[key] ELSE <<>>

\* a key of an object, or the empty object where JMESPath yields null
ObjAt(obj, key) == IF key \in DOMAIN obj THEN obj[key] ELSE [k \in {} |-> None]

\* Python truth of a string or None
Truthy(v) == v # None /\ v # ""

----------------------------------------------------------------------------
(* enrollments.py extractors *)

\* enrollments.py:81-84
EnrollmentCampusUid(enrollment) ==
    First(DisclosedIds(ListAt(ObjAt(enrollment, "student"), "identifiers"),
                       CampusUid))

\* enrollments.py:86-93
EnrollmentCampusEmail_othrfirst(enrollment) ==
    LET emails == ListAt(ObjAt(enrollment, "student"), "emails")
        email == First(EmailsOfType(emails, "OTHR"))
    IN  IF Truthy(email) THEN email
        ELSE First(EmailsOfType(emails, "CAMP"))
EnrollmentCampusEmail(enrollment) ==
    LET emails == ListAt(ObjAt(enrollment, "student"), "emails")
        email == First(EmailsOfType(emails, "CAMP"))
    IN  IF Truthy(email) THEN email
        ELSE First(EmailsOfType(emails, "OTHR"))

\* the enrollments the extractors are applied to
UidEnrollments ==
    {[student |-> [identifiers |-> l]] : l \in SeqsUpTo(Identifiers, MaxEntries)}
    \cup {[student |-> [names |-> <<>>]], [enrollmentStatus |-> [status |-> [code |-> "E"]]]}

EmailEnrollments ==
    {[student |-> [emails |-> l]] : l \in SeqsUpTo(Emails, MaxEntries)}
    \cup {[student |-> [names |-> <<>>]], [enrollmentStatus |-> [status |-> [code |-> "E"]]]}

Call_enrollment_campus_uid ==
    /\ pc = "idle"
    /\ \E e \in UidEnrollments :
        /\ op' = "enrollment_campus_uid"
        /\ args' = [enrollment |-> e]
        /\ Finish(Returned([tag |-> "str", val |-> EnrollmentCampusUid(e)]))
    /\ UNCHANGED <<locals, resplog>>

Call_enrollment_campus_email ==
    /\ pc = "idle"
    /\ \E e \in EmailEnrollments :
        /\ op' = "enrollment_campus_email"
        /\ args' = [enrollment |-> e]
        /\ Finish(Returned([tag |-> "str", val |-> EnrollmentCampusEmail(e)]))
    /\ UNCHANGED <<locals, resplog>>

----------------------------------------------------------------------------
(* classes.py: instructors of a section *)

Person1 ==
    [identifiers |-> << [type |-> CampusUid, id |-> "1", disclose |-> FALSE],
                        [type |-> CampusUid, id |-> "2", disclose |-> TRUE] >>,
     emails |-> << [type |-> [code |-> "CAMP"], emailAddress |-> "p1@berkeley.edu",
                    disclose |-> TRUE] >>,
     names |-> << [formattedName |-> "P. One"],
                  [formattedName |-> "Pat One", preferred |-> TRUE] >>]
Person2 ==
    [identifiers |-> << [type |-> CampusUid, id |-> "3"],
                        [type |-> "student-id", id |-> "4", disclose |-> TRUE] >>,
     emails |-> << [type |-> [code |-> "OTHR"], emailAddress |-> "p2@gmail.com",
                    disclose |-> TRUE],
                   [type |-> [code |-> "CAMP"], emailAddress |-> "p2@berkeley.edu",
                    disclose |-> FALSE] >>,
     names |-> << [formattedName |-> "P. Two", preferred |-> FALSE] >>]
Person3 == [names |-> <<>>]
Persons == {Person1, Person2, Person3}

\* the role of an assigned instructor: a role code, or a role without code
Roles ==
    {[code |-> c] : c \in {"PI", "TNIC", "APRX", "ICNT"}}
    \cup {[description |-> "unknown"]}

\* assignedInstructors records; the role key may be absent
Instructors ==
    {[role |-> r, instructor |-> p] : r \in Roles, p \in Persons}
    \cup {[instructor |-> p] : p \in Persons}

\* assigned instructors of one section
MaxInstructors == 2

\* sections: one meeting holding all, one meeting per instructor, a meeting
\* without assignedInstructors, and no meetings key
Sections ==
    {[id |-> "1", meetings |-> <<[assignedInstructors |-> l]>>] :
        l \in SeqsUpTo(Instructors, MaxInstructors)}
    \cup {[id |-> "1", meetings |-> [j \in 1..Len(l) |-> [assignedInstructors |-> <<l[j]>>]]] :
        l \in SeqsUpTo(Instructors, MaxInstructors) \ {<<>>}}
    \cup {[id |-> "1", meetings |-> <<[location |-> "x"]>>], [id |-> "1"]}

RoleFilters == {"instructors", "gsis", "staff", "faculty"}
IdAttrs == {CampusUid, "email", "name"}

\* JMESPath  meetings[].assignedInstructors[]  (None when meetings is absent)
AllInstructors(section) ==
    IF "meetings" \notin DOMAIN section THEN None
    ELSE LET ms == section.meetings
         IN  Flatten([j \in 1..Len(ms) |-> ListAt(ms[j], "assignedInstructors")])

\* classes.py:144-152: role_filter_map.get(role_filter, role_filter_map["staff"])
RoleFilterMap_noexclude(role_filter) ==
    IF role_filter = "gsis" THEN [include |-> TRUE, codes |-> {"TNIC"}]
    ELSE IF role_filter = "instructors" THEN [include |-> TRUE, codes |-> {"PI"}]
    ELSE [include |-> FALSE, codes |-> {}]
RoleFilterMap_overlap(role_filter) ==
    IF role_filter = "gsis" THEN [include |-> TRUE, codes |-> {"TNIC", "PI"}]
    ELSE IF role_filter = "instructors" THEN [include |-> TRUE, codes |-> {"PI"}]
    ELSE [include |-> FALSE, codes |-> {"APRX"}]
RoleFilterMap(role_filter) ==
    IF role_filter = "gsis" THEN [include |-> TRUE, codes |-> {"TNIC"}]
    ELSE IF role_filter = "instructors" THEN [include |-> TRUE, codes |-> {"PI"}]
    ELSE [include |-> FALSE, codes |-> {"APRX"}]

\* classes.py:131-163, consumed by list(): x["role"]["code"] raises KeyError
\* for a record whose role has no code
FilterInstructorsByRole(all_instructors, role_filter) ==
    LET m == RoleFilterMap(role_filter)
        keep(x) == /\ "role" \in DOMAIN x
                   /\ IF m.include THEN x.role.code \in m.codes
                      ELSE x.role.code \notin m.codes
    IN  IF \E j \in 1..Len(all_instructors) :
              /\ "role" \in DOMAIN all_instructors[j]
              /\ "code" \notin DOMAIN all_instructors[j].role
        THEN [tag |-> "raise", val |-> "KeyError"]
        ELSE [tag |-> "list", val |-> SelectSeq(all_instructors, keep)]

\* classes.py:166-181
SectionInstructorObjects(section, role_filter) ==
    LET all_instructors == AllInstructors(section)
    IN  IF all_instructors = None THEN [tag |-> "list", val |-> <<>>]
        ELSE FilterInstructorsByRole(all_instructors, role_filter)

\* classes.py:203-217: campus email, else other email, of each instructor
InstructorEmails(filtered) ==
    LET email(x) ==
            LET emails == ListAt(ObjAt(x, "instructor"), "emails")
                camp == First(EmailsOfType(emails, "CAMP"))
                othr == First(EmailsOfType(emails, "OTHR"))
            IN  IF Truthy(camp) THEN <<camp>>
                ELSE IF Truthy(othr) THEN <<othr>> ELSE <<>>
    IN  Flatten([j \in 1..Len(filtered) |-> email(filtered[j])])

\* classes.py:220-235: preferred name, else first name, of each instructor
InstructorNames(filtered) ==
    LET formatted(ns) ==
            LET m == SelectSeq(ns, LAMBDA n : "formattedName" \in DOMAIN n)
            IN  [j \in 1..Len(m) |-> m[j].formattedName]
        name(x) ==
            LET names == ListAt(ObjAt(x, "instructor"), "names")
                pref == First(formatted(SelectSeq(names,
                            LAMBDA n : "preferred" \in DOMAIN n /\ n.preferred)))
                any == First(formatted(names))
            IN  IF Truthy(pref) THEN <<pref>>
                ELSE IF Truthy(any) THEN <<any>> ELSE <<>>
    IN  Flatten([j \in 1..Len(filtered) |-> name(filtered[j])])

\* classes.py:238-241: [].instructor.identifiers[?disclose && type=='..'].id[]
InstructorIds(filtered, id_attr) ==
    Flatten([j \in 1..Len(filtered) |->
        DisclosedIds(ListAt(ObjAt(filtered[j], "instructor"), "identifiers"),
                     id_attr)])

\* classes.py:184-244
SectionInstructors(section, id_attr, role_filter) ==
    LET all_instructors == AllInstructors(section)
        filtered == FilterInstructorsByRole(all_instructors, role_filter)
    IN  IF all_instructors = None THEN [tag |-> "set", val |-> <<>>]
        ELSE IF filtered.tag = "raise" THEN filtered
        ELSE IF id_attr = "email"
             THEN [tag |-> "set", val |-> PySet(InstructorEmails(filtered.val))]
        ELSE IF id_attr = "name"
             THEN [tag |-> "set", val |-> PySet(InstructorNames(filtered.val))]
        ELSE [tag |-> "set", val |-> PySet(InstructorIds(filtered.val, id_attr))]

\* what a pure function that may raise hands to its caller
Outcome(o) == IF o.tag = "raise" THEN Raised(o.val) ELSE Returned(o)

Call_section_instructor_objects ==
    /\ pc = "idle"
    /\ \E section \in Sections, role_filter \in RoleFilters :
        /\ op' = "section_instructor_objects"
        /\ args' = [section |-> section, role_filter |-> role_filter]
        /\ Finish(Outcome(SectionInstructorObjects(section, role_filter)))
    /\ UNCHANGED <<locals, resplog>>

Call_section_instructors ==
    /\ pc = "idle"
    /\ \E section \in Sections, id_attr \in IdAttrs, role_filter \in RoleFilters :
        /\ op' = "section_instructors"
        /\ args' = [section |-> section, id_attr |-> id_attr,
                    role_filter |-> role_filter]
        /\ Finish(Outcome(SectionInstructors(section, id_attr, role_filter)))
    /\ UNCHANGED <<locals, resplog>>

----------------------------------------------------------------------------
(* enrollments.get_students *)

Uid(i, d) == [type |-> CampusUid, id |-> i, disclose |-> d]
CampEmail(a, d) == [type |-> [code |-> "CAMP"], emailAddress |-> a, disclose |-> d]
Status(c) == [status |-> [code |-> c]]

\* student U1, enrolled, everything disclosed
EnrU1 ==
    [student |-> [identifiers |-> <<Uid("U1", TRUE)>>,
                  emails |-> <<CampEmail("u1@berkeley.edu", TRUE)>>],
     enrollmentStatus |-> Status("E")]
\* student U2, waitlisted, nothing disclosed
EnrU2 ==
    [student |-> [identifiers |-> <<Uid("U2", FALSE)>>,
                  emails |-> <<CampEmail("u2@berkeley.edu", FALSE)>>],
     enrollmentStatus |-> Status("W")]
\* student U3, no status, no emails
EnrU3 == [student |-> [identifiers |-> <<Uid("U3", TRUE)>>]]
EnrollmentPages == {<<EnrU1>>, <<EnrU2, EnrU3>>}

\* section descriptors; a description is the sequence of its characters
Desc1 == [code |-> "1", description |-> <<"C", "8", " ", "L", "E", "C", " ", "1">>]
Desc2 == [code |-> "2", description |-> <<"C", "8", " ", "L", "A", "B", " ", "1">>]
Desc3 == [code |-> "3", description |-> <<"C", "8", " ", "D", "I", "S", " ", "1">>]
Desc4 == [code |-> "4"]
DescriptorPages == {<<Desc1, Desc2>>, <<Desc3, Desc4>>}

Section1 ==
    [id |-> "1",
     class |-> [course |-> [subjectArea |-> [code |-> "STAT"],
                            catalogNumber |-> [formatted |-> "C8"],
                            displayName |-> "STAT C8"]],
     association |-> [primary |-> TRUE]]
SectionPages == {<<Section1>>, <<>>}

\* enrollments.py:17
section_codes == {"LEC", "SES", "WBL", "LAB"}

\* the elements a for loop, map or filter visits: the items of a list, the
\* keys of a dict
Iterate(o) == IF o.tag = "dict" THEN KeysOf(o.val) ELSE o.val

\* JMESPath  a.b.c.d  on a value get_sections_by_id returned: a field of an
\* array is null; of an object, the value at the path or null
PathOf(o, a, b, c, d) ==
    IF o.tag = "list" THEN None
    ELSE LET v == ObjAt(ObjAt(ObjAt(o.val, a), b), c)
         IN  IF d \in DOMAIN v THEN v[d] ELSE None

\* enrollments.py:65-67
SectionSubjectArea(o) == PathOf(o, "class", "course", "subjectArea", "code")
\* enrollments.py:69-71
SectionCatalogNumber(o) == PathOf(o, "class", "course", "catalogNumber", "formatted")

\* enrollments.py:103-105
EnrollmentStatus(enrollment) ==
    LET st == ObjAt(ObjAt(enrollment, "enrollmentStatus"), "status")
    IN  IF "code" \in DOMAIN st THEN st.code ELSE None

\* enrollments.py:107-108
FilterEnrollmentStatus_all(enrollments, status) == enrollments
FilterEnrollmentStatus(enrollments, status) ==
    SelectSeq(enrollments, LAMBDA x : EnrollmentStatus(x) = status)

\* enrollments.py:110-111: None stands for the KeyError of the lookup
StatusCode(constituents) ==
    IF constituents = "enrolled" THEN "E"
    ELSE IF constituents = "waitlisted" THEN "W"
    ELSE IF constituents = "dropped" THEN "D"
    ELSE None

\* the characters str.split() treats as separators
Whitespace_blank == {" "}
Whitespace == {" ", "\t", "\n"}

\* str.split(): the maximal runs of non-whitespace characters, in order;
\* word is the run being read
RECURSIVE SplitFrom(_, _)
SplitFrom(chars, word) ==
    IF chars = <<>> THEN (IF word = "" THEN <<>> ELSE <<word>>)
    ELSE IF Head(chars) \in Whitespace
         THEN (IF word = "" THEN <<>> ELSE <<word>>) \o SplitFrom(Tail(chars), "")
         ELSE SplitFrom(Tail(chars), word \o Head(chars))

Split(chars) == SplitFrom(chars, "")

\* enrollments.py:158-170: a bare string has no description key (no key of
\* the modelled bodies contains the text 'description' either)
FilterLectures(sections) ==
    LET lecture(x) == /\ "description" \in DOMAIN x
                      /\ Range(Split(x.description)) \cap section_codes # {}
        m == SelectSeq(sections, lecture)
    IN  IF \E j \in 1..Len(m) : "code" \notin DOMAIN m[j]
        THEN [tag |-> "raise", val |-> "KeyError"]
        ELSE [tag |-> "list", val |-> [j \in 1..Len(m) |-> m[j].code]]

\* descriptions filter_lectures is applied to
Descriptions ==
    { <<"L", "E", "C">>,
      <<"A", " ", "L", "A", "B">>,
      <<"L", "E", "C", "X">>,
      <<"X", "S", "E", "S", " ", "1">>,
      <<"D", "I", "S">>,
      <<" ", "S", "E", "S", "\t", "1">>,
      <<"W", "B", "L", "\n">>,
      <<"L", " ", "E", "C">>,
      <<>> }

Descriptors ==
    {[code |-> c, description |-> t] : c \in {"1", "2"}, t \in Descriptions}
    \cup {[code |-> c] : c \in {"1", "2"}}
    \cup {[description |-> t] : t \in {<<"L", "E", "C">>, <<"D", "I", "S">>}}

\* descriptors in one list given to filter_lectures
MaxDescriptors == 2

Call_filter_lectures ==
    /\ pc = "idle"
    /\ \E sections \in SeqsUpTo(Descriptors, MaxDescriptors) :
        /\ op' = "filter_lectures"
        /\ args' = [sections |-> sections]
        /\ Finish(Outcome(FilterLectures(sections)))
    /\ UNCHANGED <<locals, resplog>>

\* enrollments.py:141-156: the tail of get_students
StudentsResult(enrollments, constituents, identifier) ==
    LET constituent_enrollments ==
            IF constituents = "students" THEN Iterate(enrollments)
            ELSE FilterEnrollmentStatus(Iterate(enrollments), StatusCode(constituents))
        attr(x) == IF identifier = CampusUid THEN EnrollmentCampusUid(x)
                   ELSE EnrollmentCampusEmail(x)
    IN  IF constituents # "students" /\ StatusCode(constituents) = None
        THEN Raised("KeyError")
        ELSE Returned([tag |-> "set",
                       val |-> PySet([j \in 1..Len(constituent_enrollments) |->
                                        attr(constituent_enrollments[j])])])

\* Python truth of the argument exact: a bool, or (from the command line) a
\* string
PyTrue(v) == v \notin {"False", "None", ""}

\* enrollments.py:45-57
SectionEnrollmentsUri(term_id, section_id) ==
    enrollments_uri \o "/terms/" \o term_id \o "/classes/sections/" \o section_id
SectionEnrollmentsParams == ("page-number" :> 1) @@ ("page-size" :> 100)

\* classes.py:39-44
SectionsByIdUri(class_section_id) == classes_sections_uri \o "/" \o class_section_id
SectionsByIdParams(term_id, class_section_id, include_secondary) ==
    ("class-section-id" :> class_section_id) @@ ("term-id" :> term_id)
        @@ ("include-secondary" :> include_secondary)

\* enrollments.py:178-188
DescriptorsUri(term_id) ==
    enrollments_uri \o "/terms/" \o term_id \o "/classes/sections/descriptors"
DescriptorsParams(subject_area, catalog_number) ==
    ("page-number" :> 1) @@ ("subject-area-code" :> subject_area)
        @@ ("catalog-number" :> catalog_number)

StudentsArgs ==
    [term_id : {"2198"}, class_number : {"1"},
     constituents : {"enrolled", "waitlisted", "students"},
     exact : {"True", "False"},
     identifier : {CampusUid, "email"}]

\* enrollments.py:113-128: get_students runs up to its first GET; ctx holds
\* what the caller keeps across the call
StartGetStudents(a, ctx) ==
    /\ op' = "get_students"
    /\ args' = a
    /\ IF PyTrue(a.exact)
       THEN /\ StartGetItems(SectionEnrollmentsUri(a.term_id, a.class_number),
                             SectionEnrollmentsParams, "classSectionEnrollments")
            /\ locals' = [stage |-> "exact", codes |-> <<>>, idx |-> 0,
                          enrollments |-> <<>>] @@ ctx
       ELSE /\ StartGetItems(SectionsByIdUri(a.class_number),
                             SectionsByIdParams(a.term_id, a.class_number, "true"),
                             "classSections")
            /\ locals' = [stage |-> "section", codes |-> <<>>, idx |-> 0,
                          enrollments |-> <<>>] @@ ctx

NoContext == [k \in {} |-> None]

Call_get_students ==
    /\ pc = "idle"
    /\ \E a \in StudentsArgs : StartGetStudents(a, NoContext)
    /\ UNCHANGED <<resplog, result>>

\* the responses of the endpoint the outstanding GET of get_students went to
StudentsResponses ==
    DomainFaults \cup
    {Resp(200, TRUE, PageBody(item_type, l)) :
        l \in IF locals.stage = "section" THEN SectionPages
              ELSE IF locals.stage = "descriptors" THEN DescriptorPages
              ELSE EnrollmentPages}

\* enrollments.py:131-139, 194-200: get_sections_by_id returned o; the
\* descriptors of the subject area and catalog number are asked for
AfterSection(o) ==
    /\ StartGetItems(DescriptorsUri(args.term_id),
                     DescriptorsParams(SectionSubjectArea(o), SectionCatalogNumber(o)),
                     "fieldValues")
    /\ locals' = [locals EXCEPT !.stage = "descriptors"]
    /\ UNCHANGED result

\* enrollments.py:192, 202-207: the descriptors arrived; the enrollments of
\* the first lecture section are asked for, if there is one
AfterDescriptors(o) ==
    LET lecture_codes == FilterLectures(Iterate(o))
    IN  IF lecture_codes.tag = "raise"
        THEN Finish(Raised(lecture_codes.val)) /\ UNCHANGED locals
        ELSE IF lecture_codes.val = <<>>
        THEN /\ Finish(StudentsResult([tag |-> "list", val |-> <<>>],
                                      args.constituents, args.identifier))
             /\ UNCHANGED locals
        ELSE /\ StartGetItems(SectionEnrollmentsUri(args.term_id, lecture_codes.val[1]),
                              SectionEnrollmentsParams, "classSectionEnrollments")
             /\ locals' = [locals EXCEPT !.stage = "enrollments",
                                         !.codes = lecture_codes.val, !.idx = 1]
             /\ UNCHANGED result

\* enrollments.py:204-207, 141-156: the enrollments of a lecture section
\* arrived; the next section is asked for, or get_students finishes
AfterEnrollments(o) ==
    LET enrollments == ExtendItems(locals.enrollments, Iterate(o))
    IN  IF locals.idx < Len(locals.codes)
        THEN /\ StartGetItems(SectionEnrollmentsUri(args.term_id,
                                                    locals.codes[locals.idx + 1]),
                              SectionEnrollmentsParams, "classSectionEnrollments")
             /\ locals' = [locals EXCEPT !.enrollments = enrollments,
                                         !.idx = @ + 1]
             /\ UNCHANGED result
        ELSE /\ Finish(StudentsResult([tag |-> "list", val |-> enrollments],
                                      args.constituents, args.identifier))
             /\ locals' = [locals EXCEPT !.enrollments = enrollments]

\* enrollments.py:118-121, 141-156: exact mode, the section's enrollments
\* arrived
AfterExact(o) ==
    /\ Finish(StudentsResult(o, args.constituents, args.identifier))
    /\ locals' = [locals EXCEPT !.enrollments = Iterate(o)]

Receive_get_students ==
    /\ pc = "await"
    /\ op = "get_students"
    /\ \E r \in StudentsResponses :
        LET o == GetItems(r)
        IN  /\ resplog' = Append(resplog, r)
            /\ IF o.tag = "page"
               THEN Recurse(o.val) /\ UNCHANGED <<result, locals>>
               ELSE IF o.tag = "raise"
               THEN Finish(Raised(o.val)) /\ UNCHANGED locals
               ELSE IF locals.stage = "exact" THEN AfterExact(o)
               ELSE IF locals.stage = "section" THEN AfterSection(o)
               ELSE IF locals.stage = "descriptors" THEN AfterDescriptors(o)
               ELSE AfterEnrollments(o)
    /\ UNCHANGED <<op, args>>

----------------------------------------------------------------------------
(* Section lookups: classes.get_sections_by_id, sis.get_section_by_id,     *)
(* classes.get_instructors                                                 *)

Assigned(code, person) == [role |-> [code |-> code], instructor |-> person]

\* a primary instructor and an administrative proxy
SectionA ==
    [id |-> "1",
     meetings |-> <<[assignedInstructors |->
                        <<Assigned("PI", Person1), Assigned("APRX", Person2)>>]>>]
\* a GSI
SectionB ==
    [id |-> "2",
     meetings |-> <<[assignedInstructors |-> <<Assigned("TNIC", Person2)>>]>>]
\* only an administrative proxy
SectionC ==
    [id |-> "3",
     meetings |-> <<[assignedInstructors |-> <<Assigned("APRX", Person1)>>]>>]
\* a role without code and a record without role
SectionD ==
    [id |-> "4",
     meetings |-> <<[assignedInstructors |->
                        <<[role |-> [description |-> "unknown"], instructor |-> Person1],
                          [instructor |-> Person2]>>]>>]

LookupSections == {SectionA, SectionB, SectionC, SectionD, Section1}

\* sections one lookup response may carry
MaxSections == 2

LookupPages == SeqsUpTo(LookupSections, MaxSections)

LookupResponses(faults) ==
    faults \cup {Resp(200, TRUE, PageBody("classSections", l)) : l \in LookupPages}

\* the pages of the paged lookup of sis.py
PagedLookupResponses ==
    DomainFaults \cup {Resp(200, TRUE, PageBody("classSections", l)) :
                          l \in SeqsUpTo({SectionA, SectionB}, MaxSections)}

\* len() of what get_items returned: the items of a list, the keys of a dict
PyLen(o) == IF o.tag = "dict" THEN Cardinality(DOMAIN o.val) ELSE Len(o.val)

\* classes.py:48-52: an empty answer becomes [], anything else is returned
\* as it is (more than one section is only logged)
SectionsById(o) ==
    IF PyLen(o) = 0 THEN [tag |-> "list", val |-> <<>>] ELSE o

Call_get_sections_by_id ==
    /\ pc = "idle"
    /\ \E include_secondary \in {"true", "false"} :
        /\ op' = "get_sections_by_id"
        /\ args' = [term_id |-> "2198", class_section_id |-> "1",
                    include_secondary |-> include_secondary]
        /\ StartGetItems(SectionsByIdUri("1"),
                         SectionsByIdParams("2198", "1", include_secondary),
                         "classSections")
    /\ UNCHANGED <<locals, resplog, result>>

Receive_get_sections_by_id ==
    /\ pc = "await"
    /\ op = "get_sections_by_id"
    /\ \E r \in LookupResponses(Faults) :
        LET o == GetItems(r)
        IN  /\ resplog' = Append(resplog, r)
            /\ IF o.tag = "page"
               THEN Recurse(o.val) /\ UNCHANGED result
               ELSE IF o.tag = "raise"
               THEN Finish(Raised(o.val))
               ELSE Finish(Returned(SectionsById(o)))
    /\ UNCHANGED <<op, args, locals>>

\* sis.py:15
sis_classes_sections_uri == "https://apis.berkeley.edu/sis/v1/classes/sections"

\* sis.py:214-220
SectionByIdParams(term_id, class_section_id, include_secondary) ==
    SectionsByIdParams(term_id, class_section_id, include_secondary)
        @@ ("page-size" :> 400) @@ ("page-number" :> 1)

\* sis.py:224-228: sections[0] of a dict is a KeyError
SectionById(o) ==
    IF PyLen(o) = 0 THEN Returned([tag |-> "list", val |-> <<>>])
    ELSE IF PyLen(o) > 1 THEN Raised("Exception")
    ELSE IF o.tag = "dict" THEN Raised("KeyError")
    ELSE Returned([tag |-> "dict", val |-> o.val[1]])

Call_get_section_by_id ==
    /\ pc = "idle"
    /\ \E include_secondary \in {"true", "false"} :
        /\ op' = "get_section_by_id"
        /\ args' = [term_id |-> "2198", class_section_id |-> "1",
                    include_secondary |-> include_secondary]
        /\ StartGetItems(sis_classes_sections_uri \o "/" \o "1",
                         SectionByIdParams("2198", "1", include_secondary),
                         "classSections")
    /\ UNCHANGED <<locals, resplog, result>>

Receive_get_section_by_id ==
    /\ pc = "await"
    /\ op = "get_section_by_id"
    /\ \E r \in PagedLookupResponses :
        LET o == GetItems(r)
        IN  /\ resplog' = Append(resplog, r)
            /\ IF o.tag = "page"
               THEN Recurse(o.val) /\ UNCHANGED result
               ELSE IF o.tag = "raise"
               THEN Finish(Raised(o.val))
               ELSE Finish(SectionById(o))
    /\ UNCHANGED <<op, args, locals>>

\* classes.py:117-128: the instructors of the sections the lookup returned
InstructorsResult(o, identifier, return_raw, role_filter) ==
    LET sections == Iterate(o)
        outs == [j \in 1..Len(sections) |->
                    IF return_raw
                    THEN SectionInstructorObjects(sections[j], role_filter)
                    ELSE SectionInstructors(sections[j], identifier, role_filter)]
        all == Flatten([j \in 1..Len(sections) |-> outs[j].val])
    IN  IF \E j \in 1..Len(sections) : outs[j].tag = "raise"
        THEN Raised("KeyError")
        ELSE IF return_raw THEN Returned([tag |-> "list", val |-> all])
        ELSE Returned([tag |-> "set", val |-> PySet(all)])

\* classes.py:99-101: get_instructors looks the section up
StartGetInstructors(a) ==
    /\ op' = "get_instructors"
    /\ args' = a
    /\ StartGetItems(SectionsByIdUri(a.class_number),
                     SectionsByIdParams(a.term_id, a.class_number, a.include_secondary),
                     "classSections")

InstructorsArgs ==
    [term_id : {"2198"}, class_number : {"1"}, include_secondary : {"false"},
     identifier : {CampusUid, "email"}, return_raw : BOOLEAN,
     role_filter : RoleFilters]

Call_get_instructors ==
    /\ pc = "idle"
    /\ \E a \in InstructorsArgs : StartGetInstructors(a)
    /\ UNCHANGED <<locals, resplog, result>>

Receive_get_instructors ==
    /\ pc = "await"
    /\ op = "get_instructors"
    /\ \E r \in LookupResponses(DomainFaults) :
        LET o == GetItems(r)
        IN  /\ resplog' = Append(resplog, r)
            /\ IF o.tag = "page"
               THEN Recurse(o.val) /\ UNCHANGED result
               ELSE IF o.tag = "raise"
               THEN Finish(Raised(o.val))
               ELSE Finish(InstructorsResult(SectionsById(o), args.identifier,
                                             args.return_raw, args.role_filter))
    /\ UNCHANGED <<op, args, locals>>

----------------------------------------------------------------------------
(* terms.get_term_id and the people command of __main__.main *)

\* terms.py:32
PositionParams(position) == "temporal-position" :> position

Call_get_term_id ==
    /\ pc = "idle"
    /\ \E position \in {"Current", "Next", "Previous"} :
        /\ op' = "get_term_id"
        /\ args' = [position |-> position]
        /\ StartGetItems(terms_uri, PositionParams(position), "terms")
    /\ UNCHANGED <<locals, resplog, result>>

Receive_get_term_id ==
    /\ pc = "await"
    /\ op = "get_term_id"
    /\ \E r \in Faults \cup {Resp(200, TRUE, PageBody("terms", l)) : l \in TermPages} :
        LET o == GetItems(r)
        IN  /\ resplog' = Append(resplog, r)
            /\ IF o.tag = "page"
               THEN Recurse(o.val) /\ UNCHANGED result
               ELSE IF o.tag = "raise"
               THEN Finish(Raised(o.val))
               ELSE Finish(FirstTermId(o))
    /\ UNCHANGED <<op, args, locals>>

\* the term ids and temporal positions a caller passes
SymbolicTerms == {"Current", "Next", "Previous"}
NumericTerms == {"2198", "2202"}

\* str.isalpha and str.isdigit on these values
IsAlpha(term_id) == term_id \in SymbolicTerms
IsDigit(term_id) == term_id \in NumericTerms

\* terms.py:56-61: a temporal position is looked up with get_term_id, any
\* other term id is returned as it is
Call_normalize_term_id ==
    /\ pc = "idle"
    /\ \E term_id \in {"2198", "Current", "Next"} :
        /\ op' = "normalize_term_id"
        /\ args' = [term_id |-> term_id]
        /\ IF IsAlpha(term_id)
           THEN /\ StartGetItems(terms_uri, PositionParams(term_id), "terms")
                /\ UNCHANGED result
           ELSE Finish(Returned([tag |-> "str", val |-> term_id]))
    /\ UNCHANGED <<locals, resplog>>

Receive_normalize_term_id ==
    /\ pc = "await"
    /\ op = "normalize_term_id"
    /\ \E r \in Faults \cup {Resp(200, TRUE, PageBody("terms", l)) : l \in TermPages} :
        LET o == GetItems(r)
        IN  /\ resplog' = Append(resplog, r)
            /\ IF o.tag = "page"
               THEN Recurse(o.val) /\ UNCHANGED result
               ELSE IF o.tag = "raise"
               THEN Finish(Raised(o.val))
               ELSE Finish(FirstTermId(o))
    /\ UNCHANGED <<op, args, locals>>

\* the parsed command line of `people` (__main__.py:110-154): -y and -t
\* exclude each other, -s is optional
PeopleArgs ==
    {a \in [year : {"2019", None}, sis_term_id : {"2198", "Current", None},
            semester : {"fall", None}, class_number : {"1"},
            constituents : {"enrolled", "students", "instructors"},
            identifier : {CampusUid}, exact : BOOLEAN, json : BOOLEAN] :
        /\ (a.year = None \/ a.sis_term_id = None)
        /\ (a.year = None => a.semester = None)}

\* the terms answers of the people command: also a term whose id is null
PeopleTermPages == TermPages \cup {<<[id |-> None, name |-> "2019 Fall"]>>}

\* enrollments.py:113 and classes.py:79-88: the parameters, in order
GetStudentsParameters ==
    <<"term_id", "class_number", "constituents", "credentials", "exact",
      "identifier">>
GetInstructorsParameters ==
    <<"app_id", "app_key", "term_id", "class_number", "include_secondary",
      "identifier", "return_raw", "role_filter">>

\* Python binds a call: the positional arguments take the first parameters
\* and every keyword must name one of the others (TypeError otherwise)
Binds(parameters, npositional, keywords) ==
    /\ npositional <= Len(parameters)
    /\ \A k \in keywords :
        \E i \in (npositional + 1)..Len(parameters) : parameters[i] = k

\* __main__.py:358
IncludeSecondary(exact) == IF exact THEN "false" ELSE "true"

\* __main__.py:353-379: the term id is known; the roster query is called
Dispatch(a, term_id) ==
    LET ctx == [cli |-> a, term_id |-> term_id]
        include_secondary == IncludeSecondary(a.exact)
    IN  IF ~Truthy(term_id)
        THEN /\ Finish(Returned([tag |-> "none", val |-> None]))
             /\ op' = "people" /\ args' = a /\ locals' = ctx
        ELSE IF a.constituents \in {"enrolled", "waitlisted", "students"}
        THEN IF ~Binds(GetStudentsParameters, 6, {"return_raw"})
             THEN /\ Finish(Raised("TypeError"))
                  /\ op' = "people" /\ args' = a /\ locals' = ctx
             ELSE /\ StartGetStudents(
                        [term_id |-> term_id, class_number |-> a.class_number,
                         constituents |-> a.constituents,
                         exact |-> include_secondary,
                         identifier |-> a.identifier], ctx)
                  /\ UNCHANGED result
        ELSE IF ~Binds(GetInstructorsParameters, 6, {"return_raw"})
             THEN /\ Finish(Raised("TypeError"))
                  /\ op' = "people" /\ args' = a /\ locals' = ctx
             ELSE /\ StartGetInstructors(
                        [term_id |-> term_id, class_number |-> a.class_number,
                         include_secondary |-> include_secondary,
                         identifier |-> a.identifier, return_raw |-> a.json,
                         role_filter |-> "staff"])
                  /\ locals' = ctx
                  /\ UNCHANGED result

\* __main__.py:336-351: the term id is taken from the command line or asked
\* of the terms endpoint
Call_people ==
    /\ pc = "idle"
    /\ \E a \in PeopleArgs :
        IF a.year # None
        THEN /\ op' = "people" /\ args' = a /\ locals' = [cli |-> a]
             /\ IF SemesterAnchor(a.semester) = None
                THEN Finish(Raised("Exception"))
                ELSE /\ StartGetItems(terms_uri,
                                      AsOfDateParams(a.year, SemesterAnchor(a.semester)),
                                      "terms")
                     /\ UNCHANGED result
        ELSE IF a.sis_term_id # None
        THEN Dispatch(a, a.sis_term_id)
        ELSE /\ op' = "people" /\ args' = a /\ locals' = [cli |-> a]
             /\ StartGetItems(terms_uri, PositionParams("Current"), "terms")
             /\ UNCHANGED result
    /\ UNCHANGED resplog

Receive_people ==
    /\ pc = "await"
    /\ op = "people"
    /\ \E r \in Faults \cup {Resp(200, TRUE, PageBody("terms", l)) : l \in PeopleTermPages} :
        LET o == GetItems(r)
            term_id == FirstTermId(o)
        IN  /\ resplog' = Append(resplog, r)
            /\ IF o.tag = "page"
               THEN Recurse(o.val) /\ UNCHANGED <<op, args, locals, result>>
               ELSE IF o.tag = "raise"
               THEN Finish(Raised(o.val)) /\ UNCHANGED <<op, args, locals>>
               ELSE IF term_id.kind = "raise"
               THEN Finish(term_id) /\ UNCHANGED <<op, args, locals>>
               ELSE Dispatch(args, term_id.val.val)

----------------------------------------------------------------------------
(* student.get_academic_plans *)

Plan1 == [academicPlan |-> [plan |-> [code |-> "25000U"]], primary |-> TRUE]
\* an academicPlan without plan
Plan2 == [academicPlan |-> [type |-> [code |-> "MAJ"]]]
\* a student plan without academicPlan
Plan3 == [primary |-> FALSE]

AcademicStatuses ==
    {[studentPlans |-> l] : l \in SeqsUpTo({Plan1, Plan2, Plan3}, MaxEntries)}
    \cup {[studentCareer |-> [code |-> "UGRD"]]}

\* student.py:54-59: x['academicPlan']['plan'] of every student plan
AcademicPlans(status) ==
    LET plans == ListAt(status, "studentPlans")
    IN  IF \E j \in 1..Len(plans) :
              \/ "academicPlan" \notin DOMAIN plans[j]
              \/ "plan" \notin DOMAIN plans[j].academicPlan
        THEN [tag |-> "raise", val |-> "KeyError"]
        ELSE [tag |-> "list",
              val |-> [j \in 1..Len(plans) |-> plans[j].academicPlan.plan]]

Call_get_academic_plans ==
    /\ pc = "idle"
    /\ \E status \in AcademicStatuses :
        /\ op' = "get_academic_plans"
        /\ args' = [status |-> status]
        /\ Finish(Outcome(AcademicPlans(status)))
    /\ UNCHANGED <<locals, resplog>>

----------------------------------------------------------------------------
(* student.get_emails *)

\* student.py:79-81: [?disclose && type.code=='CAMP'].emailAddress applied to
\* what get_items returned; a filter applied to an object yields null
DisclosedCampusEmails(o) ==
    IF o.tag = "dict" THEN [tag |-> "none", val |-> None]
    ELSE [tag |-> "list",
          val |-> EmailsOfType(SelectSeq(o.val, Discloses), "CAMP")]

\* student.py:71-75
StudentEmailsParams(id_type) ==
    ("id-type" :> id_type) @@ ("inc-cntc" :> "true")
        @@ ("affiliation-status" :> "ACT")

Call_get_emails ==
    /\ pc = "idle"
    /\ \E identifier \in {"3031"}, id_type \in {"campus-id"} :
        /\ op' = "get_emails"
        /\ args' = [identifier |-> identifier, id_type |-> id_type]
        /\ StartGetItems(students_url \o "/" \o identifier,
                         StudentEmailsParams(id_type), "emails")
    /\ UNCHANGED <<locals, resplog, result>>

Receive_get_emails ==
    /\ pc = "await"
    /\ op = "get_emails"
    /\ \E r \in Faults \cup {Resp(200, TRUE, PageBody("emails", l)) :
                                l \in SeqsUpTo(Emails, MaxEntries)} :
        LET o == GetItems(r)
        IN  /\ resplog' = Append(resplog, r)
            /\ IF o.tag = "page"
               THEN Recurse(o.val) /\ UNCHANGED result
               ELSE IF o.tag = "raise"
               THEN Finish(Raised(o.val))
               ELSE Finish(Returned(DisclosedCampusEmails(o)))
    /\ UNCHANGED <<op, args, locals>>

----------------------------------------------------------------------------
\* the invocation is over; the next one starts from scratch
Reset ==
    /\ pc = "done"
    /\ op' = "none"
    /\ args' = [none |-> None]
    /\ pc' = "idle"
    /\ uri' = ""
    /\ item_type' = ""
    /\ params' = [k \in {} |-> None]
    /\ frames' = <<>>
    /\ locals' = NoLocals
    /\ reqlog' = <<>>
    /\ resplog' = <<>>
    /\ result' = NoResult

Next ==
    \/ Call_get_items
    \/ Receive_get_items
    \/ Call_get_term_id_from_year_sem
    \/ Receive_get_term_id_from_year_sem
    \/ Call_get_courses
    \/ Receive_get_courses
    \/ Call_enrollment_campus_uid
    \/ Call_enrollment_campus_email
    \/ Call_section_instructor_objects
    \/ Call_section_instructors
    \/ Call_filter_lectures
    \/ Call_get_students
    \/ Receive_get_students
    \/ Call_get_sections_by_id
    \/ Receive_get_sections_by_id
    \/ Call_get_section_by_id
    \/ Receive_get_section_by_id
    \/ Call_get_instructors
    \/ Receive_get_instructors
    \/ Call_get_term_id
    \/ Receive_get_term_id
    \/ Call_people
    \/ Receive_people
    \/ Call_get_academic_plans
    \/ Call_get_emails
    \/ Receive_get_emails
    \/ Call_normalize_term_id
    \/ Receive_normalize_term_id
    \/ Reset

Spec == Init /\ [][Next]_vars

----------------------------------------------------------------------------
(* Concurrent fetches: several get_section_enrollments calls in flight on   *)
(* one event loop.  Here every per-invocation variable is a function of the *)
(* fetch, the server holds fixed pages for every section, and resplog is    *)
(* the global order in which the answers arrived.                           *)

Fetches == {1, 2}

\* the section each fetch is for
SectionOf(t) == IF t = 1 THEN "1" ELSE "2"

\* enrollments.py:53-56: every call builds its own params dict; the cell
\* of the store that holds the mapping of fetch t
ParamsOf_shared(t) == 1
ParamsOf(t) == t

\* what the server holds for one section: its enrollment pages
ServedPages == SeqsUpTo({<<EnrU1>>, <<EnrU2, EnrU3>>, <<>>}, MaxPages)

\* the answer of the server to a request of fetch t: the page asked for, or
\* 404 past the last page
ServerAnswer(t, request) ==
    LET pages == locals.served[SectionOf(t)]
        n == request.params["page-number"]
    IN  IF n \in 1..Len(pages)
        THEN Resp(200, TRUE, PageBody("classSectionEnrollments", pages[n]))
        ELSE Resp(404, TRUE, ErrBody)

InitConcurrent ==
    /\ op = "get_section_enrollments"
    /\ args = [t \in Fetches |-> [term_id |-> "2198", section_id |-> SectionOf(t)]]
    /\ pc = [t \in Fetches |-> "idle"]
    /\ uri = [t \in Fetches |-> ""]
    /\ item_type = "classSectionEnrollments"
    /\ params = [c \in Fetches |-> [k \in {} |-> None]]
    /\ frames = [t \in Fetches |-> <<>>]
    /\ \E served \in [{SectionOf(t) : t \in Fetches} -> ServedPages] :
        locals = [served |-> served]
    /\ reqlog = [t \in Fetches |-> <<>>]
    /\ resplog = <<>>
    /\ result = [t \in Fetches |-> NoResult]

\* enrollments.py:45-57 and sis.py:39-40: fetch t builds its params and
\* sends the GET for the first page
Fetch_start(t) ==
    LET u == SectionEnrollmentsUri(args[t].term_id, args[t].section_id)
    IN  /\ pc[t] = "idle"
        /\ params' = [params EXCEPT ![ParamsOf(t)] = SectionEnrollmentsParams]
        /\ uri' = [uri EXCEPT ![t] = u]
        /\ reqlog' = [reqlog EXCEPT ![t] = Append(@, Request(u, params'[ParamsOf(t)]))]
        /\ pc' = [pc EXCEPT ![t] = "await"]
        /\ UNCHANGED <<op, args, item_type, frames, locals, resplog, result>>

\* sis.py:40-62: the answer to the outstanding GET of fetch t arrives; the
\* frame recurses with the incremented page number, or the call unwinds
Fetch_receive(t) ==
    LET r == ServerAnswer(t, reqlog[t][Len(reqlog[t])])
        mine == params[ParamsOf(t)]
        o == GetItemsPage(r, mine, item_type)
    IN  /\ pc[t] = "await"
        /\ resplog' = Append(resplog, [fetch |-> t, response |-> r])
        /\ IF o.tag = "page"
           THEN /\ params' = [params EXCEPT ![ParamsOf(t)] = NextPage(mine)]
                /\ frames' = [frames EXCEPT ![t] = Append(@, o.val)]
                /\ reqlog' = [reqlog EXCEPT
                                 ![t] = Append(@, Request(uri[t], params'[ParamsOf(t)]))]
                /\ UNCHANGED <<pc, result>>
           ELSE /\ pc' = [pc EXCEPT ![t] = "done"]
                /\ result' = [result EXCEPT ![t] = Outcome(Unwind(frames[t], o))]
                /\ UNCHANGED <<params, frames, reqlog>>
        /\ UNCHANGED <<op, args, uri, item_type, locals>>

NextConcurrent ==
    \/ \E t \in Fetches : Fetch_start(t)
    \/ \E t \in Fetches : Fetch_receive(t)

ConcurrentSpec == InitConcurrent /\ [][NextConcurrent]_vars

----------------------------------------------------------------------------
(* Properties of the paginated fetcher *)

\* the caller of get_items passed a page number
CallerPaged == "page-number" \in DOMAIN args.params

\* the collection carried by an item page of the generic endpoint
Collection(r) == r.body.apiResponse.response["items"]

\* the responses were k item pages of n items each and then a 404
KPagesThen404(log, k, n) ==
    /\ Len(log) = k + 1
    /\ log[k + 1].status = 404
    /\ \A i \in 1..k : IsItemPage(log[i], "items") /\ Len(Collection(log[i])) = n

RECURSIVE PagesItems(_)
PagesItems(log) ==
    IF log = <<>> THEN <<>>
    ELSE Collection(Head(log)) \o PagesItems(Tail(log))

\* C1: a paged get_items call served k pages of n items each and then a 404
\* returns exactly k*n items and has issued exactly k+1 requests.
C1_PagedTotal ==
    (pc = "done" /\ op = "get_items" /\ CallerPaged) =>
        \A k \in 0..MaxPages, n \in 0..MaxPageLen :
            KPagesThen404(resplog, k, n) =>
                /\ result.kind = "return"
                /\ result.val.tag = "list"
                /\ Len(result.val.val) = k * n
                /\ Len(reqlog) = k + 1

C1_Witness ==
    /\ pc = "done" /\ op = "get_items" /\ CallerPaged
    /\ KPagesThen404(resplog, 2, 2)
    /\ Len(result.val.val) = 4

\* C2: a get_items call whose mapping has no page number issues exactly one
\* request whatever is answered, and when the answer carries the collection
\* the call returns that collection.
C2_NonPagedOneRequest ==
    (op = "get_items" /\ ~CallerPaged) =>
        /\ Len(reqlog) = 1
        /\ pc = "done" =>
            /\ Len(resplog) = 1
            /\ IsItemPage(resplog[1], "items") =>
                /\ result.kind = "return"
                /\ result.val.tag = "list"
                /\ result.val.val = Collection(resplog[1])

C2_Witness ==
    /\ pc = "done" /\ op = "get_items" /\ ~CallerPaged
    /\ IsItemPage(resplog[1], "items")
    /\ Len(result.val.val) = 2

\* C3: a 404 ends get_items without an error: on the first page the call
\* returns an empty list, on a later page it returns exactly the items of the
\* pages before it.
C3_404EndsPagination ==
    (pc = "done" /\ op = "get_items" /\ resplog[Len(resplog)].status = 404) =>
        /\ result.kind = "return"
        /\ result.val.tag = "list"
        /\ result.val.val = PagesItems(SubSeq(resplog, 1, Len(resplog) - 1))

C3_Witness ==
    /\ pc = "done" /\ op = "get_items"
    /\ Len(resplog) = 2
    /\ resplog[2].status = 404
    /\ result.kind = "return"
    /\ Len(result.val.val) = 1

\* C10: a 401 answer to any page request makes get_items fail with an
\* Authentication error; the call never returns a value.
C10_401IsFatal ==
    (pc = "done" /\ op = "get_items" /\ \E i \in 1..Len(resplog) : resplog[i].status = 401) =>
        /\ result.kind = "raise"
        /\ result.val = "AuthenticationError"

----------------------------------------------------------------------------
(* Properties of the domain queries *)

\* C8: get_term_id_from_year_sem sends the terms request with the as-of-date
\* <year>-02-01 for spring, <year>-07-01 for summer and <year>-10-01 for
\* fall, and no other request; for any other semester it raises before any
\* request is sent.
C8_SemesterAnchors ==
    (op = "get_term_id_from_year_sem") =>
        LET y == args.year
            date == IF args.semester = "spring" THEN y \o "-02-01"
                    ELSE IF args.semester = "summer" THEN y \o "-07-01"
                    ELSE y \o "-10-01"
        IN  IF args.semester \in {"spring", "summer", "fall"}
            THEN /\ Len(reqlog) = 1
                 /\ reqlog[1].uri = "https://apis.berkeley.edu/sis/v1/terms"
                 /\ DOMAIN reqlog[1].params = {"as-of-date"}
                 /\ reqlog[1].params["as-of-date"] = date
            ELSE /\ reqlog = <<>>
                 /\ pc = "done"
                 /\ result.kind = "raise"

C8_Witness ==
    /\ op = "get_term_id_from_year_sem"
    /\ args.year = "2019" /\ args.semester = "fall"
    /\ pc = "done"
    /\ reqlog[1].params["as-of-date"] = "2019-10-01"
    /\ result.kind = "return"
    /\ result.val.val = "2198"

----------------------------------------------------------------------------
(* Properties of the extractors *)

\* the identifier entries of the student of an enrollment
StudentEntries(enrollment, key) ==
    IF "student" \in DOMAIN enrollment /\ key \in DOMAIN enrollment.student
    THEN Range(enrollment.student[key])
    ELSE {}

\* the assigned-instructor records of a section, over all its meetings
Pool(section) ==
    IF "meetings" \notin DOMAIN section THEN {}
    ELSE UNION {IF "assignedInstructors" \in DOMAIN section.meetings[j]
                THEN Range(section.meetings[j].assignedInstructors)
                ELSE {} : j \in 1..Len(section.meetings)}

\* the identifier or email entries of the people assigned to a section
PoolEntries(section, key) ==
    UNION {IF key \in DOMAIN x.instructor THEN Range(x.instructor[key]) ELSE {} :
           x \in Pool(section)}

IsDisclosed(e) == "disclose" \in DOMAIN e /\ e.disclose = TRUE

UndisclosedFirst ==
    << [type |-> "campus-uid", id |-> "1", disclose |-> FALSE],
       [type |-> "campus-uid", id |-> "2", disclose |-> TRUE] >>

\* C4: enrollment_campus_uid and section_instructors (for an identifier kind)
\* return only ids of identifier entries whose disclose flag is true and whose
\* type is the requested kind; an undisclosed entry is never returned, also
\* when it precedes a disclosed entry of the same type.
C4_OnlyDisclosedIds ==
    /\ (op = "enrollment_campus_uid" /\ pc = "done") =>
        /\ result.kind = "return"
        /\ result.val.val # "None" =>
            \E e \in StudentEntries(args.enrollment, "identifiers") :
                IsDisclosed(e) /\ e.type = "campus-uid" /\ e.id = result.val.val
        /\ StudentEntries(args.enrollment, "identifiers") # {} =>
            (args.enrollment.student.identifiers = UndisclosedFirst
                => result.val.val = "2")
    /\ (op = "section_instructors" /\ pc = "done" /\ result.kind = "return"
            /\ args.id_attr \notin {"email", "name"}) =>
        \A i \in Range(result.val.val) :
            \E e \in PoolEntries(args.section, "identifiers") :
                IsDisclosed(e) /\ e.type = args.id_attr /\ e.id = i

C4_Witness ==
    /\ op = "enrollment_campus_uid" /\ pc = "done"
    /\ "student" \in DOMAIN args.enrollment
    /\ "identifiers" \in DOMAIN args.enrollment.student
    /\ args.enrollment.student.identifiers = UndisclosedFirst
    /\ result.val.val = "2"

\* C5: every email address surfaced to a caller (by enrollment email
\* extraction and get_students with identifier email, by section_instructors
\* with id_attr email, by student.get_emails) comes from an email entry whose
\* disclose flag is true.
C5_OnlyDisclosedEmails ==
    /\ (op = "enrollment_campus_email" /\ pc = "done" /\ result.val.val # "None") =>
        \E e \in StudentEntries(args.enrollment, "emails") :
            IsDisclosed(e) /\ e.emailAddress = result.val.val
    /\ (op = "section_instructors" /\ pc = "done" /\ result.kind = "return"
            /\ args.id_attr = "email") =>
        \A a \in Range(result.val.val) :
            \E e \in PoolEntries(args.section, "emails") :
                IsDisclosed(e) /\ e.emailAddress = a
    /\ (op = "get_students" /\ pc = "done" /\ result.kind = "return"
            /\ args.identifier = "email") =>
        \A a \in Range(result.val.val) \ {"None"} :
            \E x \in Range(locals.enrollments) :
                \E e \in StudentEntries(x, "emails") :
                    IsDisclosed(e) /\ e.emailAddress = a
    /\ (op = "get_emails" /\ pc = "done" /\ result.kind = "return"
            /\ result.val.tag = "list") =>
        \A a \in Range(result.val.val) :
            \E e \in Range(resplog[1].body.apiResponse.response["emails"]) :
                IsDisclosed(e) /\ e.emailAddress = a

\* the role code of an assigned-instructor record, "" when it has none
CodeOf(x) ==
    IF "role" \in DOMAIN x /\ "code" \in DOMAIN x.role THEN x.role.code ELSE ""

\* the records a role filter returns for the section of the invocation
Filtered(role_filter) ==
    Range(SectionInstructorObjects(args.section, role_filter).val)

FiltersReturn ==
    /\ op = "section_instructor_objects" /\ pc = "done"
    /\ \A f \in {"instructors", "gsis", "staff"} :
        SectionInstructorObjects(args.section, f).tag = "list"

----------------------------------------------------------------------------
(* Properties of roster aggregation *)

\* C7: the collection get_students returns in non-exact mode holds each
\* identifier once; when two or more sections were aggregated and every
\* enrollment fetched lists student U1, the result is {"U1"}, of size 1.
C7_UnionCollapses ==
    (op = "get_students" /\ pc = "done" /\ args.exact = "False"
        /\ result.kind = "return") =>
        LET v == result.val.val
        IN  /\ \A i, j \in 1..Len(v) : i # j => v[i] # v[j]
            /\ ( /\ args.identifier = "campus-uid"
                 /\ args.constituents = "students"
                 /\ Len(locals.codes) >= 2
                 /\ Len(locals.enrollments) >= 2
                 /\ \A x \in Range(locals.enrollments) :
                      StudentEntries(x, "identifiers")
                          = {[type |-> "campus-uid", id |-> "U1", disclose |-> TRUE]} )
                => (Len(v) = 1 /\ v[1] = "U1")

C7_Witness ==
    /\ op = "get_students" /\ pc = "done" /\ args.exact = "False"
    /\ args.identifier = "campus-uid" /\ args.constituents = "students"
    /\ locals.codes = <<"1", "2">>
    /\ Len(locals.enrollments) = 2
    /\ \A x \in Range(locals.enrollments) :
         StudentEntries(x, "identifiers")
             = {[type |-> "campus-uid", id |-> "U1", disclose |-> TRUE]}
    /\ result.kind = "return"
    /\ result.val.val = <<"U1">>

----------------------------------------------------------------------------
(* Pages without the collection, and empty pages *)

\* the answer is a decoded body that lacks the envelope, the response key
\* or the collection of the generic endpoint
LacksCollection(r) == r.status = 200 /\ r.json /\ ~IsItemPage(r, "items")

\* every response but the last one carried the collection
EarlierArePages(log) ==
    \A i \in 1..(Len(log) - 1) : IsItemPage(log[i], "items")

\* C11: a page whose decoded body lacks the envelope, the response key or
\* the collection contributes no items: get_items returns the empty list on
\* the first page and exactly the items of the earlier pages otherwise.
C11_AbsentCollectionIsEmpty ==
    (/\ pc = "done" /\ op = "get_items"
     /\ LacksCollection(resplog[Len(resplog)])
     /\ EarlierArePages(resplog)) =>
        /\ result.kind = "return"
        /\ result.val.tag = "list"
        /\ result.val.val = PagesItems(SubSeq(resplog, 1, Len(resplog) - 1))

\* C12: after the first page whose collection is empty, a paged get_items
\* call issues no further request and returns.
C12_EmptyPageEndsPagination ==
    (op = "get_items" /\ CallerPaged) =>
        \A i \in 1..Len(resplog) :
            (IsItemPage(resplog[i], "items") /\ Collection(resplog[i]) = <<>>) =>
                /\ Len(reqlog) <= i
                /\ pc = "done"

----------------------------------------------------------------------------
(* Non-exact rosters *)

\* the section lookup of a non-exact get_students call was answered with
\* the single section STAT C8
LookupGaveSection1 ==
    /\ op = "get_students" /\ ~PyTrue(args.exact)
    /\ Len(resplog) >= 1
    /\ IsItemPage(resplog[1], "classSections")
    /\ resplog[1].body.apiResponse.response["classSections"] = <<Section1>>

\* the codes of the section descriptors the i-th response carried
DescriptorCodes(i) ==
    IF IsItemPage(resplog[i], "fieldValues")
    THEN LET l == resplog[i].body.apiResponse.response["fieldValues"]
         IN  {l[j].code : j \in {n \in 1..Len(l) : "code" \in DOMAIN l[n]}}
    ELSE {}

\* C13: in non-exact mode get_students asks for the sections of the target
\* section's subject area and catalog number, and fetches the enrollments
\* of every section of that pair, whatever its kind.
C13_NonExactFetchesEverySection ==
    LookupGaveSection1 =>
        /\ Len(reqlog) >= 2 =>
            /\ reqlog[2].uri = DescriptorsUri(args.term_id)
            /\ reqlog[2].params["subject-area-code"] = "STAT"
            /\ reqlog[2].params["catalog-number"] = "C8"
        /\ (pc = "done" /\ result.kind = "return") =>
            \A i \in 2..Len(resplog) : \A code \in DescriptorCodes(i) :
                \E k \in 1..Len(reqlog) :
                    reqlog[k].uri = SectionEnrollmentsUri(args.term_id, code)

----------------------------------------------------------------------------
(* Lecture-like sections *)

LectureCodes == {<<"L", "E", "C">>, <<"S", "E", "S">>, <<"W", "B", "L">>,
                 <<"L", "A", "B">>}

IsBlank(c) == c \in {" ", "\t", "\n"}

\* the text holds one of the lecture codes as a whole token: the code is
\* spelled at some position and is delimited by whitespace or the text's ends
HasLectureToken(text) ==
    \E i \in 1..Len(text), j \in 1..Len(text) :
        /\ i <= j
        /\ SubSeq(text, i, j) \in LectureCodes
        /\ (i = 1 \/ IsBlank(text[i - 1]))
        /\ (j = Len(text) \/ IsBlank(text[j + 1]))

IsLectureLike(x) == "description" \in DOMAIN x /\ HasLectureToken(x.description)

\* C20: filter_lectures returns, in input order, the code of exactly the
\* descriptors whose description holds LEC, SES, WBL or LAB as a
\* whitespace-delimited token (each of them carrying a code); a descriptor
\* without description, or holding a code only inside a longer token, is not
\* returned.
C20_LectureTokens ==
    (/\ op = "filter_lectures" /\ pc = "done"
     /\ \A x \in Range(args.sections) : IsLectureLike(x) => "code" \in DOMAIN x) =>
        LET kept == SelectSeq(args.sections, IsLectureLike)
        IN  /\ result.kind = "return"
            /\ result.val.tag = "list"
            /\ result.val.val = [j \in 1..Len(kept) |-> kept[j].code]

C20_Witness ==
    /\ op = "filter_lectures" /\ pc = "done"
    /\ Len(args.sections) = 2
    /\ "description" \in DOMAIN args.sections[1]
    /\ args.sections[1].description = <<"L", "E", "C", "X">>
    /\ "description" \in DOMAIN args.sections[2]
    /\ args.sections[2].description = <<" ", "S", "E", "S", "\t", "1">>
    /\ args.sections[2].code = "2"
    /\ result.kind = "return"
    /\ result.val.val = <<"2">>

----------------------------------------------------------------------------
(* Email preference *)

\* the addresses of the entries tagged with the code
AddrsOf(entries, code) ==
    {e.emailAddress : e \in {y \in entries : y.type.code = code}}

\* the addresses extraction may return: the campus ones when there is one,
\* otherwise the other ones
Preferred(entries) ==
    IF AddrsOf(entries, "CAMP") # {} THEN AddrsOf(entries, "CAMP")
    ELSE AddrsOf(entries, "OTHR")

\* the email entries of the person of an assigned-instructor record
PersonEmails(x) ==
    IF "instructor" \in DOMAIN x /\ "emails" \in DOMAIN x.instructor
    THEN Range(x.instructor.emails)
    ELSE {}

\* the records of the section a role filter keeps
KeptBy(section, role_filter) ==
    {x \in Pool(section) :
        IF role_filter = "instructors" THEN CodeOf(x) = "PI"
        ELSE IF role_filter = "gsis" THEN CodeOf(x) = "TNIC"
        ELSE CodeOf(x) \notin {"", "APRX"}}

\* C19: email extraction returns a CAMP address whenever the person has a
\* CAMP email, an OTHR address only when the person has no CAMP email, and
\* no value when the person has neither.
C19_CampusEmailPreferred ==
    /\ (op = "enrollment_campus_email" /\ pc = "done") =>
        LET es == StudentEntries(args.enrollment, "emails")
        IN  /\ result.kind = "return"
            /\ IF Preferred(es) = {} THEN result.val.val = "None"
               ELSE result.val.val \in Preferred(es)
    /\ (op = "section_instructors" /\ pc = "done" /\ result.kind = "return"
            /\ args.id_attr = "email") =>
        LET kept == KeptBy(args.section, args.role_filter)
        IN  /\ \A a \in Range(result.val.val) :
                \E x \in kept : a \in Preferred(PersonEmails(x))
            /\ \A x \in kept :
                Preferred(PersonEmails(x)) # {} =>
                    Preferred(PersonEmails(x)) \cap Range(result.val.val) # {}

C19_Witness ==
    /\ op = "enrollment_campus_email" /\ pc = "done"
    /\ "student" \in DOMAIN args.enrollment
    /\ "emails" \in DOMAIN args.enrollment.student
    /\ Len(args.enrollment.student.emails) = 2
    /\ args.enrollment.student.emails[1].type.code = "OTHR"
    /\ args.enrollment.student.emails[1].emailAddress = "b@gmail.com"
    /\ args.enrollment.student.emails[2].type.code = "CAMP"
    /\ args.enrollment.student.emails[2].emailAddress = "a@berkeley.edu"
    /\ result.val.val = "a@berkeley.edu"

----------------------------------------------------------------------------
(* Properties of section lookups and role filtering *)

\* every value of the kind a person of an assigned-instructor record has
ValuesOf(x, id_attr) ==
    LET person == IF "instructor" \in DOMAIN x THEN x.instructor
                  ELSE [names |-> <<>>]
        entries(key) == IF key \in DOMAIN person THEN Range(person[key]) ELSE {}
    IN  IF id_attr = "email" THEN {e.emailAddress : e \in entries("emails")}
        ELSE IF id_attr = "name" THEN {e.formattedName : e \in entries("names")}
        ELSE {e.id : e \in {y \in entries("identifiers") : y.type = id_attr}}

\* the sections the lookup of the invocation was answered with
LookedUp ==
    UNION {Range(resplog[i].body.apiResponse.response["classSections"]) :
           i \in {n \in 1..Len(resplog) : IsItemPage(resplog[n], "classSections")}}

\* C15: whatever the role filter, section_instructor_objects returns no
\* record whose role code is APRX, and every identifier section_instructors
\* or get_instructors returns belongs to an assignment that is not APRX.
C15_ProxyExcluded ==
    /\ (op = "section_instructor_objects" /\ pc = "done"
            /\ result.kind = "return") =>
        \A x \in Range(result.val.val) : CodeOf(x) # "APRX"
    /\ (op = "section_instructors" /\ pc = "done" /\ result.kind = "return") =>
        \A v \in Range(result.val.val) :
            \E x \in Pool(args.section) :
                CodeOf(x) # "APRX" /\ v \in ValuesOf(x, args.id_attr)
    /\ (op = "get_instructors" /\ pc = "done" /\ result.kind = "return") =>
        IF args.return_raw
        THEN \A x \in Range(result.val.val) : CodeOf(x) # "APRX"
        ELSE \A v \in Range(result.val.val) :
                \E section \in LookedUp : \E x \in Pool(section) :
                    CodeOf(x) # "APRX" /\ v \in ValuesOf(x, args.identifier)

C15_Witness ==
    /\ op = "get_instructors" /\ pc = "done" /\ result.kind = "return"
    /\ ~args.return_raw
    /\ args.identifier = "email"
    /\ args.role_filter = "faculty"
    /\ LookedUp = {SectionA, SectionC}
    /\ result.val.val = <<"p1@berkeley.edu">>

\* the items the pages of a paged lookup carried, in order
RECURSIVE LookupItems(_)
LookupItems(log) ==
    IF log = <<>> THEN <<>>
    ELSE (IF IsItemPage(Head(log), "classSections")
          THEN Head(log).body.apiResponse.response["classSections"]
          ELSE <<>>) \o LookupItems(Tail(log))

\* C16: a lookup of a section by its id that yields more than one section
\* fails with an error instead of returning the sections.
C16_AmbiguousSectionIsFatal ==
    /\ (op = "get_sections_by_id" /\ pc = "done"
            /\ Cardinality(LookedUp) > 1) =>
        result.kind = "raise"
    /\ (op = "get_section_by_id" /\ pc = "done"
            /\ resplog[Len(resplog)].status = 404
            /\ Len(LookupItems(resplog)) > 1) =>
        result.kind = "raise"

\* C18: a record with no role, or with a role that carries no recognised
\* code, is in the result of none of the three role filters, and the
\* filters do not fail on it.
C18_UnknownRoleExcluded ==
    (op = "section_instructor_objects" /\ pc = "done"
        /\ args.role_filter \in {"instructors", "gsis", "staff"}) =>
        /\ result.kind = "return"
        /\ \A x \in Range(result.val.val) : CodeOf(x) \in {"PI", "TNIC", "APRX"}

----------------------------------------------------------------------------
(* Properties of the people command and of term resolution *)

\* the invocation is a run of the people command
FromPeople == "cli" \in DOMAIN locals

\* the people command got a usable term id and went on to the roster query
TermResolved == FromPeople /\ "term_id" \in DOMAIN locals /\ Truthy(locals.term_id)

\* C14: a get_students call in exact mode only requests enrollment pages of
\* the given section, and a people run without --exact for a student roster
\* resolves it in non-exact mode, which begins with the section lookup.
C14_ExactOnlyWhenAsked ==
    /\ (op = "get_students" /\ ~FromPeople /\ PyTrue(args.exact)) =>
        \A i \in 1..Len(reqlog) :
            reqlog[i].uri = SectionEnrollmentsUri(args.term_id, args.class_number)
    /\ (pc = "done" /\ TermResolved /\ ~locals.cli.exact
            /\ locals.cli.constituents \in {"enrolled", "students"}) =>
        \E k \in 1..Len(reqlog) :
            reqlog[k].uri = SectionsByIdUri(locals.cli.class_number)

\* the terms endpoint answered 404, or a decoded body without the terms
\* collection
NoTermAnswer(r) ==
    r.status = 404 \/ (r.status = 200 /\ r.json /\ ~IsItemPage(r, "terms"))

\* C17: when the terms endpoint answers 404 or without a terms collection,
\* get_term_id and get_term_id_from_year_sem return no id without raising,
\* and the people command ends normally after that single request.
C17_NoTermShortCircuits ==
    /\ (op \in {"get_term_id", "get_term_id_from_year_sem"} /\ pc = "done"
            /\ Len(resplog) = 1 /\ NoTermAnswer(resplog[1])) =>
        /\ result.kind = "return"
        /\ result.val.val = "None"
    /\ (FromPeople /\ Len(resplog) >= 1 /\ reqlog[1].uri = terms_uri
            /\ NoTermAnswer(resplog[1])) =>
        /\ Len(reqlog) = 1
        /\ pc = "done"
        /\ result.kind = "return"

----------------------------------------------------------------------------
(* Properties of the roster's contents *)

\* the status code an enrollment record carries ("" when it carries none)
StatusOf(x) ==
    IF /\ "enrollmentStatus" \in DOMAIN x
       /\ "status" \in DOMAIN x.enrollmentStatus
       /\ "code" \in DOMAIN x.enrollmentStatus.status
    THEN x.enrollmentStatus.status.code
    ELSE ""

\* what the requested extractor yields for an enrollment
AttrOf(x) ==
    IF args.identifier = "campus-uid" THEN EnrollmentCampusUid(x)
    ELSE EnrollmentCampusEmail(x)

\* the enrollments a constituency stands for
Constituent(x) ==
    IF args.constituents = "enrolled" THEN StatusOf(x) = "E"
    ELSE IF args.constituents = "waitlisted" THEN StatusOf(x) = "W"
    ELSE TRUE

\* C21: get_students builds its result from exactly the fetched enrollments
\* whose status code is E (enrolled) or W (waitlisted); for students every
\* fetched enrollment contributes.
C21_StatusFilter ==
    (op = "get_students" /\ pc = "done" /\ result.kind = "return") =>
        Range(result.val.val) =
            {AttrOf(x) : x \in {y \in Range(locals.enrollments) : Constituent(y)}}

C21_Witness ==
    /\ op = "get_students" /\ pc = "done" /\ result.kind = "return"
    /\ args.constituents = "enrolled"
    /\ args.identifier = "campus-uid"
    /\ PyTrue(args.exact)
    /\ locals.enrollments = <<EnrU1, EnrU2, EnrU3>>
    /\ result.val.val = <<"U1">>

----------------------------------------------------------------------------
(* Extractors and absent fields *)

Extractors ==
    {"section_instructor_objects", "section_instructors",
     "enrollment_campus_uid", "enrollment_campus_email", "filter_lectures",
     "get_academic_plans"}

\* C22: no extractor raises, whatever path or optional field is absent from
\* the record it is applied to.
C22_ExtractorsNeverRaise ==
    (pc = "done" /\ op \in Extractors) => result.kind = "return"

----------------------------------------------------------------------------
(* Server errors *)

\* the answer has a status that is neither 2xx nor 404 nor 401 (status 0
\* stands for a GET that got no answer at all)
IsServerError(r) == r.status \notin {0, 200, 401, 404}

\* C23: an answer with a non-2xx status other than 404 and 401 makes
\* get_items fail: the call never returns a value.
C23_ServerErrorIsFatal ==
    (pc = "done" /\ op = "get_items"
        /\ \E i \in 1..Len(resplog) : IsServerError(resplog[i])) =>
        result.kind = "raise"

----------------------------------------------------------------------------
(* The caller's parameter mapping *)

\* C24: when get_items is over, the parameter mapping the caller passed
\* holds the keys and values it held at the call.
C24_ParamsUntouched ==
    (pc = "done" /\ op = "get_items") => params = args.params

----------------------------------------------------------------------------
(* Concurrent fetches do not interfere *)

\* C25 (under ConcurrentSpec): whatever the interleaving, every fetch asks
\* for the pages 1, 2, ... of its own section, one past the last page the
\* server holds, and returns the items of exactly these pages, in order, as
\* it does when it runs alone.
C25_FetchesIndependent ==
    \A t \in Fetches :
        LET pages == locals.served[SectionOf(t)]
        IN  /\ Len(reqlog[t]) <= Len(pages) + 1
            /\ \A i \in 1..Len(reqlog[t]) :
                /\ reqlog[t][i].params["page-number"] = i
                /\ reqlog[t][i].uri = SectionEnrollmentsUri("2198", SectionOf(t))
            /\ pc[t] = "done" =>
                /\ Len(reqlog[t]) = Len(pages) + 1
                /\ result[t].kind = "return"
                /\ result[t].val.tag = "list"
                /\ result[t].val.val = Flatten(pages)

\* both fetches are over, their answers arrived interleaved, and each got
\* its own section's items
C25_Witness ==
    /\ pc[1] = "done" /\ pc[2] = "done"
    /\ locals.served["1"] = <<<<EnrU1>>, <<EnrU2, EnrU3>>>>
    /\ locals.served["2"] = <<<<EnrU2, EnrU3>>>>
    /\ Len(resplog) = 5
    /\ resplog[1].fetch = 1 /\ resplog[2].fetch = 2 /\ resplog[3].fetch = 1
    /\ resplog[4].fetch = 2 /\ resplog[5].fetch = 1
    /\ result[1].val.val = <<EnrU1, EnrU2, EnrU3>>
    /\ result[2].val.val = <<EnrU2, EnrU3>>

----------------------------------------------------------------------------
(* Order of the page requests *)

\* C26: in a paged get_items call the i-th request carries the caller's
\* page number plus i - 1 (consecutive pages, none requested twice), and a
\* further request is sent only once the answer to the previous one has
\* arrived and was a page that contains items.
C26_SequentialPages ==
    (op = "get_items" /\ CallerPaged) =>
        /\ \A i \in 1..Len(reqlog) :
            reqlog[i].params["page-number"] = args.params["page-number"] + i - 1
        /\ \A i \in 1..(Len(reqlog) - 1) :
            /\ i <= Len(resplog)
            /\ IsItemPage(resplog[i], "items")
            /\ Collection(resplog[i]) # <<>>

----------------------------------------------------------------------------
(* Term ids *)

\* C27: normalize_term_id returns an all-digit term id unchanged without
\* a request and resolves a temporal position with one terms query; and
\* every section or enrollment request of a people query carries an
\* all-digit term id, a temporal position given with -t having been
\* resolved by a terms request first and an all-digit one by none.
C27_NumericTermId ==
    /\ (op = "normalize_term_id" /\ pc = "done" /\ IsDigit(args.term_id)) =>
        /\ reqlog = <<>>
        /\ result.kind = "return"
        /\ result.val.val = args.term_id
    /\ (op = "normalize_term_id" /\ IsAlpha(args.term_id)) =>
        /\ Len(reqlog) >= 1
        /\ \A i \in 1..Len(reqlog) : reqlog[i].uri = terms_uri
        /\ reqlog[1].params["temporal-position"] = args.term_id
    /\ FromPeople =>
        \A i \in 1..Len(reqlog) :
            reqlog[i].uri # terms_uri =>
                /\ "term_id" \in DOMAIN locals
                /\ IsDigit(locals.term_id)
                /\ "term-id" \in DOMAIN reqlog[i].params =>
                    reqlog[i].params["term-id"] = locals.term_id
                /\ IsAlpha(locals.cli.sis_term_id) => reqlog[1].uri = terms_uri
                /\ IsDigit(locals.cli.sis_term_id) =>
                    \A k \in 1..Len(reqlog) : reqlog[k].uri # terms_uri

----------------------------------------------------------------------------
(* Elements of the roster *)

\* C28: every element of the collection get_students returns is an
\* identifier or an email address: the result holds no null element.
C28_StudentsAreStrings ==
    (op = "get_students" /\ pc = "done" /\ result.kind = "return") =>
        \A i \in 1..Len(result.val.val) : result.val.val[i] # None
====
